---- MODULE Spec2Model ----
(***************************************************************************)
(* Event-request review workflow of the SEP portal.                        *)
(*                                                                         *)
(* State: the event_request table (one row per request), the bag of review *)
(* calls that have read the row state and not yet written (the server      *)
(* action reviewEventRequestAction is a read followed by a separate        *)
(* update), a record of the call that completed last, the position of the  *)
(* run in the end-to-end scenarios of the workflow, the profile of the      *)
(* user signed in to the event flow panel, and the state of that panel:    *)
(* the list it holds, the request whose buttons it disables, whether it    *)
(* shows the list as loading, and its handlers suspended at an await.      *)
(***************************************************************************)
EXTENDS Integers, Sequences, FiniteSets, Bags, TLC

VARIABLES rows, inflight, last, scenario, profile, eventRequests, updatingId,
          deciding, isLoading

vars == <<rows, inflight, last, scenario, profile, eventRequests, updatingId,
          deciding, isLoading>>

(***************************************************************************)
(* Bounds of the model.                                                    *)
(***************************************************************************)
\* number of review calls that may be between their read and their update
\* at the same time
MaxCallers == 1

\* number of rows a joined relation of a listed request may come back with
MaxRelationRows == 2

\* the same in the race scenario: one more than MaxCallers, so at least two
MaxRaceCallers == MaxCallers + 1

\* Every store operation of the workflow is keyed by one request id and reads
\* or writes that row alone, so the table is modelled with a single request id:
\* before the insert the id has no row, after it the id has one.
RequestIds == {1}

\* the handlers one panel has awaiting an answer at once
MaxDecisions == 2

\* the length of the texts typed into the feedback boxes of the panel that is
\* run with all its handlers
MaxDraftLen == 0

(***************************************************************************)
(* JavaScript values: a nullable / optional text is a tagged record, a     *)
(* text is its sequence of characters.                                     *)
(***************************************************************************)
JsNull == [t |-> "null", s |-> <<>>]
JsUndefined == [t |-> "undefined", s |-> <<>>]
JsStr(chars) == [t |-> "string", s |-> chars]

\* null review_step / absent value of a status-like column
null == "null"

JsObject(v) == [t |-> "object", v |-> v]
JsArray(items) == [t |-> "array", v |-> items]

\* the values the store returns for a joined relation (client, submitter) of
\* a row: null, nothing, one summary, or a list of summaries
RelationObjects == { JsObject("first"), JsObject("second") }
RelationValues ==
    { JsNull, JsUndefined } \cup RelationObjects
      \cup { JsArray(items) :
               items \in UNION { [1..n -> RelationObjects] : n \in 0..MaxRelationRows } }

\* the values returned for the submitter of a row, a to-one relation: the
\* summary, or null when the staff record is gone
SubmitterValues == { JsNull, JsObject("first") }

\* the feedback texts callers supply (options?.feedback)
FeedbackInputs ==
    { JsStr(<<" ">>), JsStr(<<" ", "a", " ">>) }

\* the feedback values of the feedback scenario: the texts above, an absent
\* feedback, the empty text and a text with a space inside
FeedbackTexts ==
    FeedbackInputs \cup { JsUndefined, JsStr(<<>>), JsStr(<<"a", " ", "a">>) }

(***************************************************************************)
(* lib/event-request-config                                                *)
(***************************************************************************)
EVENT_REQUEST_STATUSES == <<"DRAFT", "PENDING", "REJECTED", "OPEN">>

EVENT_REQUEST_REVIEW_STEPS ==
    <<"FINANCIAL_MANAGER", "ADMINISTRATION_MANAGER", "CUSTOMER_MEETING",
      "RESOURCE_CONFIRMING">>

Range(seq) == { seq[i] : i \in DOMAIN seq }

\* Array.prototype.findIndex over the step keys: 0-based index, or -1
findIndex(steps, key) ==
    IF \E i \in DOMAIN steps : steps[i] = key
    THEN (CHOOSE i \in DOMAIN steps :
            steps[i] = key /\ \A j \in DOMAIN steps : steps[j] = key => i <= j) - 1
    ELSE -1

(***************************************************************************)
(* lib/event-request                                                       *)
(***************************************************************************)
\* String.prototype.toUpperCase on the status texts a row can hold
toUpperCase(value) ==
    CASE value = "draft" -> "DRAFT"
      [] value = "pending" -> "PENDING"
      [] value = "rejected" -> "REJECTED"
      [] value = "approved" -> "APPROVED"
      [] value = "open" -> "OPEN"
      [] OTHER -> value

normalizeStatus(value) ==
    IF value = null
    THEN "DRAFT"
    ELSE LET upper == toUpperCase(value)
         IN IF upper = "DRAFT" \/ upper = "PENDING" \/ upper = "REJECTED"
               \/ upper = "OPEN"
            THEN upper
            ELSE "DRAFT"

\* a normalisation that keeps every step key as it is
normalizeReviewStep_AnyKey(value) == value

\* The three step keys a persisted review_step may hold.
ReviewStepKeys == {"FINANCIAL_MANAGER", "ADMINISTRATION_MANAGER", "CUSTOMER_MEETING"}

\* normalizeReviewStep is imported by the server actions from lib/event-request;
\* a persisted review_step is one of the three step keys, anything else is null.
normalizeReviewStep(value) ==
    IF value \in ReviewStepKeys THEN value ELSE null

\* a relation value whose list form yields its last row
unwrapRelation_LastOfList(value) ==
    IF value.t \in {"null", "undefined"} THEN JsNull
    ELSE IF value.t = "array"
         THEN (IF Len(value.v) = 0 THEN JsNull ELSE value.v[Len(value.v)])
    ELSE value

\* unwrapRelation: null for a falsy value, value[0] ?? null for a list, the
\* value itself otherwise
unwrapRelation(value) ==
    IF value.t \in {"null", "undefined"} THEN JsNull
    ELSE IF value.t = "array"
         THEN (IF Len(value.v) = 0 \/ value.v[1].t \in {"null", "undefined"}
               THEN JsNull
               ELSE value.v[1])
    ELSE value

\* mapEventRequestRow on the status and the joined relations of a row
mapEventRequestRow(row, client, submitter) ==
    [ status |-> normalizeStatus(row.status),
      client |-> unwrapRelation(client),
      submitter |-> unwrapRelation(submitter) ]

IsSpace(ch) == ch = " "

RECURSIVE trimStart(_)
trimStart(chars) ==
    IF chars # <<>> /\ IsSpace(Head(chars)) THEN trimStart(Tail(chars)) ELSE chars

RECURSIVE trimEnd(_)
trimEnd(chars) ==
    IF chars # <<>> /\ IsSpace(chars[Len(chars)])
    THEN trimEnd(SubSeq(chars, 1, Len(chars) - 1))
    ELSE chars

\* String.prototype.trim
trim(chars) == trimEnd(trimStart(chars))

\* JavaScript numbers: a value, Infinity, or NaN
NaN == [t |-> "NaN", n |-> 0]
Infinity == [t |-> "Infinity", n |-> 0]
JsNum(n) == [t |-> "number", n |-> n]

\* Number.isNaN
isNaN(value) == value.t = "NaN"

\* the text of an invalid date, whose getTime() is NaN
InvalidDate == "Invalid Date"

DigitChars == <<"0", "1", "2", "3", "4", "5", "6", "7", "8", "9">>

\* the value of a non-empty text of decimal digits
RECURSIVE DecimalValue(_)
DecimalValue(chars) ==
    IF chars = <<>> THEN 0
    ELSE 10 * DecimalValue(SubSeq(chars, 1, Len(chars) - 1))
           + findIndex(DigitChars, chars[Len(chars)])

HexLetters == <<"a", "b", "c", "d", "e", "f">>
HexCapitals == <<"A", "B", "C", "D", "E", "F">>

\* the value of a digit of a numeric literal, -1 for any other character
DigitValue(ch) ==
    IF findIndex(DigitChars, ch) # -1 THEN findIndex(DigitChars, ch)
    ELSE IF findIndex(HexLetters, ch) # -1 THEN 10 + findIndex(HexLetters, ch)
    ELSE IF findIndex(HexCapitals, ch) # -1 THEN 10 + findIndex(HexCapitals, ch)
    ELSE -1

\* a non-empty text of digits of the radix
IsDigitsOf(chars, radix) ==
    /\ chars # <<>>
    /\ \A i \in DOMAIN chars :
          DigitValue(chars[i]) # -1 /\ DigitValue(chars[i]) < radix

RECURSIVE RadixValue(_, _)
RadixValue(chars, radix) ==
    IF chars = <<>> THEN 0
    ELSE radix * RadixValue(SubSeq(chars, 1, Len(chars) - 1), radix)
           + DigitValue(chars[Len(chars)])

RECURSIVE PowerOfTen(_)
PowerOfTen(n) == IF n = 0 THEN 1 ELSE 10 * PowerOfTen(n - 1)

\* the radix a prefix 0x, 0o or 0b announces, 0 for a text without one
RadixOfPrefix(text) ==
    IF Len(text) < 2 \/ text[1] # "0" THEN 0
    ELSE CASE text[2] \in {"x", "X"} -> 16
           [] text[2] \in {"o", "O"} -> 8
           [] text[2] \in {"b", "B"} -> 2
           [] OTHER -> 0

\* Number(text) on texts of digits, spaces and letters whose value is below
\* 2^31: surrounding white space is dropped and the rest is read as a numeric
\* literal; the empty text is 0, "Infinity" is Infinity, decimal digits are
\* their value, also with an exponent (1e3), digits after 0x, 0o or 0b are
\* read in that radix, and anything else is NaN
Number(chars) ==
    LET text == trim(chars)
        marks == { i \in DOMAIN text : text[i] \in {"e", "E"} }
    IN IF text = <<>> THEN JsNum(0)
       ELSE IF text = <<"I", "n", "f", "i", "n", "i", "t", "y">> THEN Infinity
       ELSE IF IsDigitsOf(text, 10) THEN JsNum(DecimalValue(text))
       ELSE IF RadixOfPrefix(text) # 0
            THEN (IF IsDigitsOf(SubSeq(text, 3, Len(text)), RadixOfPrefix(text))
                  THEN JsNum(RadixValue(SubSeq(text, 3, Len(text)),
                                        RadixOfPrefix(text)))
                  ELSE NaN)
       ELSE IF Cardinality(marks) = 1
            THEN (LET at == CHOOSE i \in marks : TRUE
                      mantissa == SubSeq(text, 1, at - 1)
                      exponent == SubSeq(text, at + 1, Len(text))
                  IN IF IsDigitsOf(mantissa, 10) /\ IsDigitsOf(exponent, 10)
                     THEN JsNum(DecimalValue(mantissa)
                                  * PowerOfTen(DecimalValue(exponent)))
                     ELSE NaN)
       ELSE NaN

\* new Date(text).toISOString() on the time texts of the form, InvalidDate
\* for a text that is not a date
toISOString(text) ==
    CASE text = "2025-01-01T10:00Z" -> "2025-01-01T10:00:00.000Z"
      [] text = "2025-01-01T10:00:00.000Z" -> "2025-01-01T10:00:00.000Z"
      [] OTHER -> InvalidDate

\* the forms submitted to the create dialog: client id, start and finish time
ClientIdTexts == { <<>>, <<" ">>, <<"x">>, <<"7">> }
TimeTexts == { "", "tomorrow", "2025-01-01T10:00Z" }
FormStates ==
    [ clientId : ClientIdTexts, startTime : TimeTexts, finishTime : TimeTexts ]

validateEventRequestForm(form) ==
    IF form.clientId = <<>> \/ isNaN(Number(form.clientId))
    THEN [ ok |-> FALSE, message |-> "Please select a client before submitting." ]
    ELSE IF form.startTime = "" \/ form.finishTime = ""
         THEN [ ok |-> FALSE, message |-> "Start time and finish time are required." ]
    ELSE [ ok |-> TRUE, message |-> null ]

\* buildCreateEventRequestInput: the input of the create action, or the error
\* thrown for a time that is not a valid date
buildCreateEventRequestInput(form) ==
    LET start == toISOString(form.startTime)
        finish == toISOString(form.finishTime)
    IN IF start = InvalidDate \/ finish = InvalidDate
       THEN [ threw |-> TRUE, message |-> "Invalid start or finish time supplied." ]
       ELSE [ threw |-> FALSE,
              clientId |-> Number(form.clientId),
              startTime |-> start, finishTime |-> finish ]

(***************************************************************************)
(* app/actions/event-requests                                              *)
(***************************************************************************)
\* the feedback value without the replacement of an empty text by null
feedbackValueOf_EmptyKept(feedback) ==
    IF feedback.t = "string" THEN JsStr(trim(feedback.s)) ELSE JsNull

\* typeof options?.feedback === 'string' ? options.feedback.trim() || null : null
feedbackValueOf(feedback) ==
    IF feedback.t = "string"
    THEN (IF trim(feedback.s) # <<>> THEN JsStr(trim(feedback.s)) ELSE JsNull)
    ELSE JsNull

FEEDBACK_COLUMN_BY_STEP(step) ==
    CASE step = "FINANCIAL_MANAGER" -> "financial_manager_feedback"
      [] step = "ADMINISTRATION_MANAGER" -> "administration_manager_feedback"
      [] step = "CUSTOMER_MEETING" -> "customer_meeting_feedback"
      [] OTHER -> "undefined"

\* a payload whose status is PENDING
NewRow_Pending ==
    [ status |-> "PENDING",
      review_step |-> null,
      scso_feedback |-> JsNull,
      financial_manager_feedback |-> JsNull,
      administration_manager_feedback |-> JsNull,
      customer_meeting_feedback |-> JsNull ]

\* the row written by createEventRequestAction: status DRAFT, every other
\* workflow column at its default
NewRow ==
    [ status |-> "DRAFT",
      review_step |-> null,
      scso_feedback |-> JsNull,
      financial_manager_feedback |-> JsNull,
      administration_manager_feedback |-> JsNull,
      customer_meeting_feedback |-> JsNull ]

\* updateEventRequestStatusAction storing the feedback text as supplied
StatusUpdates_RawFeedback(nextStatus, feedback) ==
    [ status |-> nextStatus,
      review_step |-> IF nextStatus = "PENDING" THEN "FINANCIAL_MANAGER" ELSE null,
      scso_feedback |-> IF feedback.t = "string" THEN feedback ELSE JsNull ]

\* updateEventRequestStatusAction with the review step left unset on PENDING
StatusUpdates_StepNotSet(nextStatus, feedback) ==
    [ status |-> nextStatus, review_step |-> null,
      scso_feedback |-> feedbackValueOf(feedback) ]

\* updates of updateEventRequestStatusAction
StatusUpdates(nextStatus, feedback) ==
    IF nextStatus = "PENDING"
    THEN [ status |-> nextStatus, review_step |-> "FINANCIAL_MANAGER",
           scso_feedback |-> feedbackValueOf(feedback) ]
    ELSE [ status |-> nextStatus, review_step |-> null,
           scso_feedback |-> feedbackValueOf(feedback) ]

\* the decision table with a rejection that leaves the request at its step
ReviewTransition_RejectKeepsStep(stepIndex, decision) ==
    IF decision = "REJECT"
    THEN [ status |-> "REJECTED",
           review_step |-> EVENT_REQUEST_REVIEW_STEPS[stepIndex + 1] ]
    ELSE LET hasNext == stepIndex + 1 < Len(EVENT_REQUEST_REVIEW_STEPS)
         IN IF hasNext
            THEN [ status |-> "PENDING",
                   review_step |-> EVENT_REQUEST_REVIEW_STEPS[(stepIndex + 1) + 1] ]
            ELSE [ status |-> "APPROVED", review_step |-> null ]

\* the decision table with a rejection that leaves the status PENDING
ReviewTransition_RejectStaysPending(stepIndex, decision) ==
    IF decision = "REJECT"
    THEN [ status |-> "PENDING", review_step |-> null ]
    ELSE LET hasNext == stepIndex + 1 < Len(EVENT_REQUEST_REVIEW_STEPS)
         IN IF hasNext
            THEN [ status |-> "PENDING",
                   review_step |-> EVENT_REQUEST_REVIEW_STEPS[(stepIndex + 1) + 1] ]
            ELSE [ status |-> "APPROVED", review_step |-> null ]

\* the decision table with an approval that does not advance the step
ReviewTransition_SameStep(stepIndex, decision) ==
    IF decision = "REJECT"
    THEN [ status |-> "REJECTED", review_step |-> null ]
    ELSE LET hasNext == stepIndex + 1 < Len(EVENT_REQUEST_REVIEW_STEPS)
         IN IF hasNext
            THEN [ status |-> "PENDING",
                   review_step |-> EVENT_REQUEST_REVIEW_STEPS[stepIndex + 1] ]
            ELSE [ status |-> "APPROVED", review_step |-> null ]

\* decision table of reviewEventRequestAction
ReviewTransition(stepIndex, decision) ==
    IF decision = "REJECT"
    THEN [ status |-> "REJECTED", review_step |-> null ]
    ELSE LET hasNext == stepIndex + 1 < Len(EVENT_REQUEST_REVIEW_STEPS)
         IN IF hasNext
            THEN [ status |-> "PENDING",
                   review_step |-> EVENT_REQUEST_REVIEW_STEPS[(stepIndex + 1) + 1] ]
            ELSE [ status |-> "APPROVED", review_step |-> null ]

\* the checks without the comparison of the step argument with review_step
ReviewCheck_NoStepComparison(data, reviewStep) ==
    LET currentStatus == normalizeStatus(data.status)
    IN IF currentStatus # "PENDING" THEN "Event request is not pending review."
       ELSE IF findIndex(EVENT_REQUEST_REVIEW_STEPS, reviewStep) = -1
            THEN "Invalid review step provided."
       ELSE "ok"

\* the checks without the test of the status
ReviewCheck_NoPendingCheck(data, reviewStep) ==
    LET currentReviewStep == normalizeReviewStep(data.review_step)
    IN IF currentReviewStep # reviewStep
       THEN "Review step mismatch. Refresh and try again."
       ELSE IF findIndex(EVENT_REQUEST_REVIEW_STEPS, reviewStep) = -1
            THEN "Invalid review step provided."
       ELSE "ok"

\* the checks with the comparison of the step made before the test of the status
ReviewCheck_MismatchFirst(data, reviewStep) ==
    LET currentStatus == normalizeStatus(data.status)
        currentReviewStep == normalizeReviewStep(data.review_step)
    IN IF currentReviewStep # reviewStep
       THEN "Review step mismatch. Refresh and try again."
       ELSE IF currentStatus # "PENDING" THEN "Event request is not pending review."
       ELSE IF findIndex(EVENT_REQUEST_REVIEW_STEPS, reviewStep) = -1
            THEN "Invalid review step provided."
       ELSE "ok"

\* the precondition checks of reviewEventRequestAction on the fetched state:
\* the error it returns, or "ok" when the update is to be issued
ReviewCheck(data, reviewStep) ==
    LET currentStatus == normalizeStatus(data.status)
        currentReviewStep == normalizeReviewStep(data.review_step)
    IN IF currentStatus # "PENDING" THEN "Event request is not pending review."
       ELSE IF currentReviewStep # reviewStep
            THEN "Review step mismatch. Refresh and try again."
       ELSE IF findIndex(EVENT_REQUEST_REVIEW_STEPS, reviewStep) = -1
            THEN "Invalid review step provided."
       ELSE "ok"

\* supabase .update(updates).eq('id', id): the columns named are overwritten
\* in the matching row, a table without that row is left as it is
ApplyUpdate(table, id, updates) ==
    IF id \in DOMAIN table
    THEN [table EXCEPT ![id] =
            [c \in DOMAIN table[id] |->
                IF c \in DOMAIN updates THEN updates[c] ELSE table[id][c]]]
    ELSE table

StorageError == "storage error"
Success == "success"

NotFound == "Event request not found."
NotPending == "Event request is not pending review."
StepMismatch == "Review step mismatch. Refresh and try again."
InvalidStep == "Invalid review step provided."

\* the row with the given id as the store returns it: <<row>>, or <<>> for no row
RowOf(table, id) == IF id \in DOMAIN table THEN <<table[id]>> ELSE <<>>

RECURSIVE CopiesOfAll(_, _)
CopiesOfAll(bag, elems) ==
    IF elems = {} THEN 0
    ELSE LET e == CHOOSE x \in elems : TRUE
         IN CopiesIn(e, bag) + CopiesOfAll(bag, elems \ {e})

\* the bag of the images of the elements of a bag
MapBag(bag, F(_)) ==
    [ x \in { F(e) : e \in BagToSet(bag) } |->
        CopiesOfAll(bag, { e \in BagToSet(bag) : F(e) = x }) ]

\* the (status, review_step) pair of a fetched row, <<>> for no row
StateOf(data) == IF data = <<>> THEN <<>> ELSE <<data[1].status, data[1].review_step>>

\* the record of a completed call: its arguments, its result, the
\* (status, review_step) its read returned (<<>> when it read nothing), the
\* (status, review_step) of the row when its last store operation was issued,
\* and whether a concurrent review of the same step succeeded before it
Completed(op, id, step, decision, feedback, result, seen, pre, raced) ==
    [ op |-> op, id |-> id, step |-> step, decision |-> decision,
      feedback |-> feedback, result |-> result, seen |-> seen,
      pre |-> StateOf(pre), raced |-> raced ]

NoCompleted ==
    Completed("none", 0, null, null, JsUndefined, Success, <<>>, <<>>, FALSE)

\* the name the workflow gives to a call of updateEventRequestStatusAction
StatusOp(nextStatus) ==
    CASE nextStatus = "PENDING" -> "submitForReview"
      [] nextStatus = "REJECTED" -> "rejectDraft"
      [] OTHER -> "updateStatusAction"

Decisions == {"APPROVE", "REJECT"}

\* the status arguments callers pass: the EVENT_REQUEST_STATUSES, and APPROVED,
\* which the server actions use as an EventRequestStatus as well
StatusInputs == Range(EVENT_REQUEST_STATUSES) \cup {"APPROVED"}

\* the step arguments callers pass to reviewEventRequestAction
StepInputs == Range(EVENT_REQUEST_REVIEW_STEPS) \cup {"UNKNOWN_STEP"}

\* The position of the run in the end-to-end scenarios (create, submit for
\* review, then the reviews of the steps in order, or a rejection at
\* FINANCIAL_MANAGER followed by further review calls) after a call has
\* completed: accepted says that the store answered the call, concurrent that
\* a review of the same step, in progress at the same time, succeeded first.
ScenarioAfter(current, op, step, decision, accepted, concurrent) ==
    IF op = "create" THEN (IF accepted THEN "created" ELSE current)
    ELSE IF current = "start" THEN "start"
    ELSE IF current \in {"fmRejected", "fmRejectedReviewed"}
         THEN (IF op = "review" /\ ~concurrent THEN "fmRejectedReviewed" ELSE "other")
    ELSE IF ~accepted THEN "other"
    ELSE IF current = "created" /\ op = "submitForReview" THEN "submitted"
    ELSE IF current = "submitted" /\ op = "review" /\ step = "FINANCIAL_MANAGER"
         THEN (IF decision = "APPROVE" THEN "fmApproved" ELSE "fmRejected")
    ELSE IF /\ current = "fmApproved" /\ op = "review"
            /\ step = "ADMINISTRATION_MANAGER" /\ decision = "APPROVE"
         THEN "amApproved"
    ELSE IF /\ current = "amApproved" /\ op = "review"
            /\ step = "CUSTOMER_MEETING" /\ decision = "APPROVE"
         THEN "cmApproved"
    ELSE "other"

Init ==
    /\ rows = <<>>
    /\ inflight = EmptyBag
    /\ last = NoCompleted
    /\ scenario = "start"
    /\ profile = null
    /\ eventRequests = <<>>
    /\ updatingId = JsNull
    /\ deciding = EmptyBag
    /\ isLoading = TRUE

\* the data listEventRequestsAction returns: the rows by creation time,
\* latest first, each with the relations the store joined to it, mapped by
\* mapEventRequestRow; no record when the store fails
selectEventRequests(client, submitter, storeOk) ==
    IF storeOk
    THEN [ i \in 1..Len(rows) |->
             mapEventRequestRow(rows[Len(rows) + 1 - i], client, submitter) ]
    ELSE <<>>

\* listEventRequestsAction; the record of the call keeps the joined relations
\* and the list returned
listEventRequestsAction(client, submitter, storeOk) ==
    /\ last' = [ op |-> "list", id |-> 0, step |-> null, decision |-> null,
                 feedback |-> JsUndefined,
                 result |-> IF storeOk THEN Success ELSE StorageError,
                 seen |-> <<>>, pre |-> <<>>, raced |-> FALSE,
                 joined |-> [ client |-> client, submitter |-> submitter ],
                 data |-> selectEventRequests(client, submitter, storeOk) ]
    /\ UNCHANGED <<rows, inflight, scenario, profile>>

\* the store operation of createEventRequestAction: insert of the payload of
\* buildEventRequestInsertPayload (status DRAFT); the store assigns the id
insertEventRequest(storeOk) ==
    /\ Len(rows) < Cardinality(RequestIds)
    /\ rows' = IF storeOk THEN Append(rows, NewRow) ELSE rows
    /\ UNCHANGED <<inflight, profile>>

\* createEventRequestAction, with the record of the call
createEventRequestAction(storeOk) ==
    /\ insertEventRequest(storeOk)
    /\ last' = Completed("create", Len(rows) + 1, null, null, JsUndefined,
                         IF storeOk THEN Success ELSE StorageError, <<>>, <<>>,
                         FALSE)
    /\ scenario' = ScenarioAfter(scenario, "create", null, null, storeOk, FALSE)

\* the action refusing to send to review a request that is not a draft
updateEventRequestStatusAction_DraftOnly(requestId, nextStatus, feedback, storeOk) ==
    LET refused == /\ nextStatus = "PENDING"
                   /\ requestId \in DOMAIN rows
                   /\ rows[requestId].status # "DRAFT"
    IN /\ rows' = IF storeOk /\ ~refused
                  THEN ApplyUpdate(rows, requestId, StatusUpdates(nextStatus, feedback))
                  ELSE rows
       /\ last' = Completed(StatusOp(nextStatus), requestId, null, null, feedback,
                            IF ~storeOk THEN StorageError
                            ELSE IF refused THEN "Event request is not a draft."
                            ELSE Success,
                            <<>>, RowOf(rows, requestId), FALSE)
       /\ scenario' = ScenarioAfter(scenario, StatusOp(nextStatus), null, null,
                                    storeOk, FALSE)
       /\ UNCHANGED <<inflight, profile>>

\* the store operation of updateEventRequestStatusAction(requestId,
\* nextStatus, {feedback}): one update
updateStatusColumns(requestId, nextStatus, feedback, storeOk) ==
    /\ rows' = IF storeOk
               THEN ApplyUpdate(rows, requestId, StatusUpdates(nextStatus, feedback))
               ELSE rows
    /\ UNCHANGED <<inflight, profile>>

\* updateEventRequestStatusAction, with the record of the call
updateEventRequestStatusAction(requestId, nextStatus, feedback, storeOk) ==
    /\ updateStatusColumns(requestId, nextStatus, feedback, storeOk)
    /\ last' = Completed(StatusOp(nextStatus), requestId, null, null, feedback,
                         IF storeOk THEN Success ELSE StorageError,
                         <<>>, RowOf(rows, requestId), FALSE)
    /\ scenario' = ScenarioAfter(scenario, StatusOp(nextStatus), null, null,
                                 storeOk, FALSE)

\* the error reviewEventRequestAction returns before its update, "ok" when
\* the select and every check on the fetched state pass
ReviewFailure(requestId, reviewStep, storeOk) ==
    LET data == RowOf(rows, requestId)
    IN IF ~storeOk THEN StorageError
       ELSE IF data = <<>> THEN NotFound
       ELSE ReviewCheck(data[1], reviewStep)

\* the store operation of the first half of reviewEventRequestAction: the
\* select of (status, review_step); a call that passes the checks is then
\* between its read and its update
selectReviewState(requestId, reviewStep, decision, feedback, storeOk) ==
    /\ inflight' = IF ReviewFailure(requestId, reviewStep, storeOk) = "ok"
                   THEN inflight (+) SetToBag({
                                 [ id |-> requestId,
                                   step |-> reviewStep, decision |-> decision,
                                   feedback |-> feedback,
                                   seen |-> StateOf(RowOf(rows, requestId)),
                                   raced |-> FALSE ] })
                   ELSE inflight
    /\ UNCHANGED <<rows, profile>>

\* reviewEventRequestAction, first half: the select of (status, review_step)
\* and the checks on it; the call returns here on any failure, which the
\* record of the call keeps
reviewFetchState(requestId, reviewStep, decision, feedback, storeOk) ==
    /\ selectReviewState(requestId, reviewStep, decision, feedback, storeOk)
    /\ LET data == RowOf(rows, requestId)
           failure == ReviewFailure(requestId, reviewStep, storeOk)
       IN IF failure = "ok"
          THEN UNCHANGED <<last, scenario>>
          ELSE /\ last' = Completed("review", requestId, reviewStep, null,
                                    JsUndefined, failure,
                                    IF storeOk THEN StateOf(data) ELSE <<>>,
                                    data, FALSE)
               /\ scenario' = ScenarioAfter(scenario, "review", reviewStep,
                                            decision, storeOk, FALSE)

\* the update without the feedback column
ReviewUpdates_WithoutFeedback(reviewStep, decision, feedback) ==
    LET stepIndex == findIndex(EVENT_REQUEST_REVIEW_STEPS, reviewStep)
        next == ReviewTransition(stepIndex, decision)
    IN [ status |-> next.status, review_step |-> next.review_step ]

\* the update clearing the feedback of the submitter as well
ReviewUpdates_ClearsScso(reviewStep, decision, feedback) ==
    LET stepIndex == findIndex(EVENT_REQUEST_REVIEW_STEPS, reviewStep)
        next == ReviewTransition(stepIndex, decision)
    IN (FEEDBACK_COLUMN_BY_STEP(reviewStep) :> feedbackValueOf(feedback))
         @@ [ status |-> next.status, review_step |-> next.review_step,
              scso_feedback |-> JsNull ]

\* the update reviewEventRequestAction issues for a call whose checks passed
ReviewUpdates(reviewStep, decision, feedback) ==
    LET stepIndex == findIndex(EVENT_REQUEST_REVIEW_STEPS, reviewStep)
        next == ReviewTransition(stepIndex, decision)
    IN (FEEDBACK_COLUMN_BY_STEP(reviewStep) :> feedbackValueOf(feedback))
         @@ [ status |-> next.status, review_step |-> next.review_step ]

\* the store operation of the second half of reviewEventRequestAction: the
\* update, issued after the checks passed on the state fetched earlier; the
\* calls of the same step that are still before their update are marked as
\* overtaken
updateReviewColumns(call, storeOk) ==
    /\ call \in BagToSet(inflight)
    /\ LET Overtaken(other) ==
               IF storeOk /\ other.id = call.id /\ other.step = call.step
               THEN [other EXCEPT !.raced = TRUE]
               ELSE other
       IN /\ rows' = IF storeOk
                     THEN ApplyUpdate(rows, call.id,
                              ReviewUpdates(call.step, call.decision, call.feedback))
                     ELSE rows
          /\ inflight' = MapBag(inflight (-) SetToBag({call}), Overtaken)
    /\ UNCHANGED profile

\* reviewEventRequestAction, second half, with the record of the call
reviewUpdate(call, storeOk) ==
    /\ updateReviewColumns(call, storeOk)
    /\ last' = Completed("review", call.id, call.step, call.decision,
                         call.feedback,
                         IF storeOk THEN Success ELSE StorageError,
                         call.seen, RowOf(rows, call.id), call.raced)
    /\ scenario' = ScenarioAfter(scenario, "review", call.step,
                                 call.decision, storeOk, call.raced)

\* updateEventRequestStatus(id, status) of lib/event-request-service: an update
\* of the status column alone, returning the row (.single() fails without one)
updateEventRequestStatus(id, status, storeOk) ==
    /\ rows' = IF storeOk THEN ApplyUpdate(rows, id, [status |-> status]) ELSE rows
    /\ last' = Completed("updateStatus", id, null, null, JsUndefined,
                         IF storeOk /\ id \in DOMAIN rows THEN Success
                         ELSE StorageError,
                         <<>>, RowOf(rows, id), FALSE)
    /\ scenario' = ScenarioAfter(scenario, "updateStatus", null, null, storeOk,
                                 FALSE)
    /\ UNCHANGED <<inflight, profile>>

(***************************************************************************)
(* context/auth-context and components/event-flow-panel                    *)
(***************************************************************************)
\* the roles a staff profile may carry that the event flow distinguishes
RoleKeys ==
    { "CUSTOMER_SERVICE", "SENIOR_CUSTOMER_SERVICE", "FINANCIAL_MANAGER",
      "ADMINISTRATION_MANAGER", "PRODUCTION_MANAGER" }

\* AuthProvider: the profile of the signed-in user is loaded, or cleared
setProfile(value) ==
    /\ profile' = value
    /\ UNCHANGED <<rows, inflight, last, scenario>>

\* profile?.role
role == IF profile = null THEN "undefined" ELSE profile

isSeniorCustomerService == role = "SENIOR_CUSTOMER_SERVICE"
isFinancialManager == role = "FINANCIAL_MANAGER"
isAdministrationManager == role = "ADMINISTRATION_MANAGER"

\* a check that lets each of the three reviewing roles handle every step
canHandleReviewStep_AnyReviewer(step) ==
    /\ step \in {"FINANCIAL_MANAGER", "ADMINISTRATION_MANAGER", "CUSTOMER_MEETING"}
    /\ (isFinancialManager \/ isAdministrationManager \/ isSeniorCustomerService)

canHandleReviewStep(step) ==
    CASE step = "FINANCIAL_MANAGER" -> isFinancialManager
      [] step = "ADMINISTRATION_MANAGER" -> isAdministrationManager
      [] step = "CUSTOMER_MEETING" -> isSeniorCustomerService
      [] OTHER -> FALSE

canCreate == role = "CUSTOMER_SERVICE"

\* the state of the panel: the list it holds, the request whose buttons it
\* disables, its handlers awaiting an answer, and whether it shows the list
\* as loading
panelState == <<eventRequests, updatingId, deciding, isLoading>>


\* a handler of the panel that has returned to the event loop at an await:
\* the handler, the role of the profile it was started under, its arguments,
\* the client id of its payload, and the answer it awaits: that of its server
\* action ("action"), that of the update of reviewEventRequestAction, whose
\* select has passed ("update"), or those of the two requests of fetchData
\* ("reload"), of which requestsResult and clientsResult hold the one that
\* has been answered (<<>> before the answer)
HandlerRun(handler, by, id, nextStatus, step, decision, feedback, clientId, pc) ==
    [ handler |-> handler, by |-> by, id |-> id, nextStatus |-> nextStatus,
      step |-> step, decision |-> decision, feedback |-> feedback,
      clientId |-> clientId, pc |-> pc,
      requestsResult |-> <<>>, clientsResult |-> <<>> ]

\* void fetchData(): the load of the list started by the mount effect or by
\* handleCreate, which no handler awaits
FetchRun ==
    HandlerRun("fetchData", "undefined", 0, null, null, null, JsUndefined,
               JsNull, "reload")

\* the run with the answer it awaits next
Awaiting(run, pc) == [run EXCEPT !.pc = pc]

\* the runs of the panel once the given run has gone on to its next await
Moved(run, pc) == (deciding (-) SetToBag({run})) (+) SetToBag({Awaiting(run, pc)})

\* the runs of the panel once the given run has ended
Ended(run) == deciding (-) SetToBag({run})

\* the list the panel holds: the request with the given id, <<>> when the
\* list does not have it (the list is by creation time, latest first)
listedRequest(requestId) ==
    IF requestId \in 1..Len(eventRequests)
    THEN <<eventRequests[Len(eventRequests) + 1 - requestId]>>
    ELSE <<>>

\* handleCreate up to its await of createEventRequestAction: the permission
\* check, the validation of the form and the construction of the input (which
\* throws on an invalid time); a refused submission shows an alert, which is
\* not part of the state, and changes nothing else
handleCreate(form) ==
    IF profile = null \/ ~canCreate
    THEN UNCHANGED vars
    ELSE IF ~validateEventRequestForm(form).ok
    THEN UNCHANGED vars
    ELSE IF buildCreateEventRequestInput(form).threw
    THEN UNCHANGED vars
    ELSE /\ deciding' = deciding (+) SetToBag({
                          HandlerRun("handleCreate", role, 0, null, null, null,
                                     JsUndefined,
                                     buildCreateEventRequestInput(form).clientId,
                                     "action") })
         /\ UNCHANGED <<rows, inflight, last, scenario, profile, updatingId,
                        eventRequests, isLoading>>

\* handleCreate from the answer of createEventRequestAction: after a success
\* the list is loaded again without being awaited (fetchData runs to its
\* await, setIsLoading(true) included)
handleCreateAnswered(run, storeOk) ==
    /\ run \in BagToSet(deciding)
    /\ run.handler = "handleCreate"
    /\ run.pc = "action"
    /\ insertEventRequest(storeOk)
    /\ UNCHANGED <<last, scenario>>
    /\ deciding' = IF storeOk THEN Ended(run) (+) SetToBag({FetchRun})
                   ELSE Ended(run)
    /\ isLoading' = IF storeOk THEN TRUE ELSE isLoading
    /\ UNCHANGED <<updatingId, eventRequests>>

\* the handler letting every signed-in profile decide on a draft
handleDraftDecision_AnyProfile(requestId, nextStatus, draft) ==
    IF profile = null
    THEN UNCHANGED vars
    ELSE /\ updatingId' = JsNum(requestId)
         /\ deciding' = deciding (+) SetToBag({
                          HandlerRun("handleDraftDecision", role, requestId,
                                     nextStatus, null, null,
                                     JsStr(trim(draft.s)), JsNull, "action") })
         /\ UNCHANGED <<rows, inflight, last, scenario, profile, eventRequests,
                        isLoading>>

\* handleDraftDecision(requestId, nextStatus) up to its await of
\* updateEventRequestStatusAction: the permission check, which the senior
\* customer service role alone passes (a refused click shows an alert and
\* changes nothing else), setUpdatingId(requestId), and the call with the
\* trimmed draft of the feedback box
handleDraftDecision(requestId, nextStatus, draft) ==
    IF ~isSeniorCustomerService \/ profile = null
    THEN UNCHANGED vars
    ELSE /\ updatingId' = JsNum(requestId)
         /\ deciding' = deciding (+) SetToBag({
                          HandlerRun("handleDraftDecision", role, requestId,
                                     nextStatus, null, null,
                                     JsStr(trim(draft.s)), JsNull, "action") })
         /\ UNCHANGED <<rows, inflight, last, scenario, profile, eventRequests,
                        isLoading>>

\* handleDraftDecision from the answer of updateEventRequestStatusAction: after
\* a success it calls fetchData, which runs setIsLoading(true) and awaits its
\* two requests; a failure is thrown, and the finally block runs
\* setUpdatingId(null)
handleDraftDecisionAnswered(run, storeOk) ==
    /\ run \in BagToSet(deciding)
    /\ run.handler = "handleDraftDecision"
    /\ run.pc = "action"
    /\ updateStatusColumns(run.id, run.nextStatus, run.feedback, storeOk)
    /\ UNCHANGED <<last, scenario>>
    /\ IF storeOk
       THEN /\ deciding' = Moved(run, "reload")
            /\ isLoading' = TRUE
            /\ UNCHANGED updatingId
       ELSE /\ deciding' = Ended(run)
            /\ updatingId' = JsNull
            /\ UNCHANGED isLoading
    /\ UNCHANGED eventRequests

\* handleReviewDecision(requestId, step, decision) up to its await of
\* reviewEventRequestAction: without a profile that may handle the step the
\* handler returns after the alert; otherwise setUpdatingId(requestId) and the
\* call with the trimmed draft of the feedback box
handleReviewDecision(requestId, step, decision, draft) ==
    IF profile = null \/ ~canHandleReviewStep(step)
    THEN UNCHANGED vars
    ELSE /\ updatingId' = JsNum(requestId)
         /\ deciding' = deciding (+) SetToBag({
                          HandlerRun("handleReviewDecision", role, requestId,
                                     null, step, decision,
                                     JsStr(trim(draft.s)), JsNull, "action") })
         /\ UNCHANGED <<rows, inflight, last, scenario, profile, eventRequests,
                        isLoading>>

\* the select of the reviewEventRequestAction a handleReviewDecision awaits:
\* when a check fails the action answers, the handler throws the error and
\* its finally block runs setUpdatingId(null)
handleReviewDecisionSelected(run, storeOk) ==
    /\ run \in BagToSet(deciding)
    /\ run.handler = "handleReviewDecision"
    /\ run.pc = "action"
    /\ selectReviewState(run.id, run.step, run.decision, run.feedback, storeOk)
    /\ UNCHANGED <<last, scenario>>
    /\ IF ReviewFailure(run.id, run.step, storeOk) = "ok"
       THEN /\ deciding' = Moved(run, "update")
            /\ UNCHANGED updatingId
       ELSE /\ deciding' = Ended(run)
            /\ updatingId' = JsNull
    /\ UNCHANGED <<eventRequests, isLoading>>

\* handleReviewDecision from the answer of reviewEventRequestAction, whose
\* update has been applied or has failed: after a success it calls fetchData,
\* which runs setIsLoading(true) and awaits its two requests; a failure is
\* thrown, and the finally block runs setUpdatingId(null)
handleReviewDecisionAnswered(run, call, storeOk) ==
    /\ run \in BagToSet(deciding)
    /\ run.handler = "handleReviewDecision"
    /\ run.pc = "update"
    /\ call.id = run.id
    /\ call.step = run.step
    /\ call.decision = run.decision
    /\ call.feedback = run.feedback
    /\ updateReviewColumns(call, storeOk)
    /\ UNCHANGED <<last, scenario>>
    /\ IF storeOk
       THEN /\ deciding' = Moved(run, "reload")
            /\ isLoading' = TRUE
            /\ UNCHANGED updatingId
       ELSE /\ deciding' = Ended(run)
            /\ updatingId' = JsNull
            /\ UNCHANGED isLoading
    /\ UNCHANGED eventRequests

\* fetchData from the answer of its Promise.all, which it has once both of
\* its requests are answered: when both succeeded setEventRequests takes the
\* list that was read, otherwise the panel keeps the list it had; the finally
\* block runs setIsLoading(false); a decision handler that awaited the load
\* then ends, and its finally block runs setUpdatingId(null)
fetchDataResumed(run, requestsResult, clientsResult) ==
    /\ eventRequests' = IF requestsResult.success /\ clientsResult.success
                        THEN requestsResult.data
                        ELSE eventRequests
    /\ isLoading' = FALSE
    /\ deciding' = Ended(run)
    /\ updatingId' = IF run.handler = "fetchData" THEN updatingId ELSE JsNull

\* the listEventRequestsAction of a fetchData answered: the list is read now;
\* fetchData goes on when listClientsAction has answered already, and keeps
\* the result until it answers otherwise
fetchDataAnswered(run, requestsOk) ==
    /\ run \in BagToSet(deciding)
    /\ run.pc = "reload"
    /\ run.requestsResult = <<>>
    /\ UNCHANGED <<rows, inflight, last, scenario, profile>>
    /\ LET requestsResult ==
               [ success |-> requestsOk,
                 data |-> selectEventRequests(JsNull, JsNull, requestsOk) ]
       IN IF run.clientsResult = <<>>
          THEN /\ deciding' = Ended(run) (+) SetToBag({
                                [run EXCEPT !.requestsResult = <<requestsResult>>] })
               /\ UNCHANGED <<eventRequests, updatingId, isLoading>>
          ELSE fetchDataResumed(run, requestsResult, run.clientsResult[1])

\* the listClientsAction of a fetchData answered (the client table is not
\* part of the state): fetchData goes on when listEventRequestsAction has
\* answered already, and keeps the result until it answers otherwise
listClientsAnswered(run, clientsOk) ==
    /\ run \in BagToSet(deciding)
    /\ run.pc = "reload"
    /\ run.clientsResult = <<>>
    /\ LET clientsResult == [ success |-> clientsOk ]
       IN IF run.requestsResult = <<>>
          THEN /\ deciding' = Ended(run) (+) SetToBag({
                                [run EXCEPT !.clientsResult = <<clientsResult>>] })
               /\ UNCHANGED <<eventRequests, updatingId, isLoading>>
          ELSE fetchDataResumed(run, run.requestsResult[1], clientsResult)
    /\ UNCHANGED <<rows, inflight, last, scenario, profile>>

\* the specifications of the server actions have no panel
panelDecisions == panelState


\* the server actions of app/actions/event-requests
Next ==
    \/ \E storeOk \in BOOLEAN :
            /\ createEventRequestAction(storeOk)
            /\ UNCHANGED panelDecisions
    \/ \E id \in RequestIds, st \in StatusInputs,
          fb \in FeedbackInputs, storeOk \in BOOLEAN :
            /\ updateEventRequestStatusAction(id, st, fb, storeOk)
            /\ UNCHANGED panelDecisions
    \/ \E id \in RequestIds, step \in StepInputs,
          d \in Decisions, fb \in FeedbackInputs, storeOk \in BOOLEAN :
            /\ BagCardinality(inflight) < MaxCallers
            /\ reviewFetchState(id, step, d, fb, storeOk)
            /\ UNCHANGED panelDecisions
    \/ \E call \in BagToSet(inflight), storeOk \in BOOLEAN :
            /\ reviewUpdate(call, storeOk)
            /\ UNCHANGED panelDecisions

Spec == Init /\ [][Next]_vars

\* the same server actions with MaxRaceCallers review calls in progress at once
NextRace ==
    \/ \E storeOk \in BOOLEAN :
            /\ createEventRequestAction(storeOk)
            /\ UNCHANGED panelDecisions
    \/ \E id \in RequestIds, st \in StatusInputs,
          fb \in FeedbackInputs, storeOk \in BOOLEAN :
            /\ updateEventRequestStatusAction(id, st, fb, storeOk)
            /\ UNCHANGED panelDecisions
    \/ \E id \in RequestIds, step \in StepInputs,
          d \in Decisions, fb \in FeedbackInputs, storeOk \in BOOLEAN :
            /\ BagCardinality(inflight) < MaxRaceCallers
            /\ reviewFetchState(id, step, d, fb, storeOk)
            /\ UNCHANGED panelDecisions
    \/ \E call \in BagToSet(inflight), storeOk \in BOOLEAN :
            /\ reviewUpdate(call, storeOk)
            /\ UNCHANGED panelDecisions

SpecRace == Init /\ [][NextRace]_vars

\* the server actions together with the status update of lib/event-request-service
NextService ==
    \/ Next
    \/ \E id \in RequestIds, st \in StatusInputs, storeOk \in BOOLEAN :
            /\ updateEventRequestStatus(id, st, storeOk)
            /\ UNCHANGED panelDecisions

SpecService == Init /\ [][NextService]_vars

\* the ordered step sequence of the workflow description
WorkflowSteps == <<"FINANCIAL_MANAGER", "ADMINISTRATION_MANAGER", "CUSTOMER_MEETING">>

\* the workflow operations (submitForReview, rejectDraft, review) called one
\* at a time with every kind of feedback value
NextFeedback ==
    \/ \E storeOk \in BOOLEAN :
            /\ createEventRequestAction(storeOk)
            /\ UNCHANGED panelDecisions
    \/ \E id \in RequestIds, st \in {"PENDING", "REJECTED"},
          fb \in FeedbackTexts, storeOk \in BOOLEAN :
            /\ updateEventRequestStatusAction(id, st, fb, storeOk)
            /\ UNCHANGED panelDecisions
    \/ \E id \in RequestIds, step \in Range(WorkflowSteps),
          d \in Decisions, fb \in FeedbackTexts, storeOk \in BOOLEAN :
            /\ inflight = EmptyBag
            /\ reviewFetchState(id, step, d, fb, storeOk)
            /\ UNCHANGED panelDecisions
    \/ \E call \in BagToSet(inflight), storeOk \in BOOLEAN :
            /\ reviewUpdate(call, storeOk)
            /\ UNCHANGED panelDecisions

SpecFeedback == Init /\ [][NextFeedback]_vars

\* the server actions called one at a time, and the list of the requests
NextList ==
    \/ \E storeOk \in BOOLEAN :
            /\ createEventRequestAction(storeOk)
            /\ UNCHANGED panelDecisions
    \/ \E id \in RequestIds, st \in StatusInputs,
          fb \in FeedbackInputs, storeOk \in BOOLEAN :
            /\ updateEventRequestStatusAction(id, st, fb, storeOk)
            /\ UNCHANGED panelDecisions
    \/ \E id \in RequestIds, step \in StepInputs,
          d \in Decisions, fb \in FeedbackInputs, storeOk \in BOOLEAN :
            /\ inflight = EmptyBag
            /\ reviewFetchState(id, step, d, fb, storeOk)
            /\ UNCHANGED panelDecisions
    \/ \E call \in BagToSet(inflight), storeOk \in BOOLEAN :
            /\ reviewUpdate(call, storeOk)
            /\ UNCHANGED panelDecisions
    \/ \E client \in RelationValues, submitter \in SubmitterValues,
          storeOk \in BOOLEAN :
            /\ rows # <<>>
            /\ listEventRequestsAction(client, submitter, storeOk)
            /\ UNCHANGED panelDecisions

SpecList == Init /\ [][NextList]_vars

\* renderRequestRow: whether the draft decision buttons of a listed request
\* are rendered, and whether they are disabled
canReviewDraft(request) == isSeniorCustomerService /\ request.status = "DRAFT"

buttonsDisabled(requestId) == updatingId = JsNum(requestId)

\* the panel after its mount over an empty table: the list is being loaded
InitPanel ==
    /\ rows = <<>>
    /\ inflight = EmptyBag
    /\ last = NoCompleted
    /\ scenario = "start"
    /\ profile = null
    /\ eventRequests = <<>>
    /\ updatingId = JsNull
    /\ deciding = SetToBag({FetchRun})
    /\ isLoading = TRUE

\* getFeedbackDraft: the text of the feedback box of a request, empty when
\* nothing was typed in
PanelDrafts ==
    { JsStr(chars) :
        chars \in UNION { [1..n -> {" ", "a"}] : n \in 0..MaxDraftLen } }

\* the creations the panel awaits the answer of
CreatesInFlight ==
    CopiesOfAll(deciding,
                { run \in BagToSet(deciding) : run.handler = "handleCreate" })

\* one event flow panel: the profile changes while the handlers of the panel
\* (creation of a request, draft decision, review decision, load of the list)
\* run from await to await, at most MaxDecisions of them at once; the table
\* takes the requests of RequestIds
NextPanel ==
    \/ \E value \in RoleKeys \cup {null} :
            /\ setProfile(value)
            /\ UNCHANGED panelState
    \/ \E form \in FormStates :
            /\ BagCardinality(deciding) < MaxDecisions
            /\ Len(rows) + CreatesInFlight < Cardinality(RequestIds)
            /\ handleCreate(form)
    \/ \E run \in BagToSet(deciding), storeOk \in BOOLEAN :
            handleCreateAnswered(run, storeOk)
    \/ \E id \in RequestIds, st \in {"PENDING", "REJECTED"},
          draft \in PanelDrafts :
            /\ BagCardinality(deciding) < MaxDecisions
            /\ handleDraftDecision(id, st, draft)
    \/ \E run \in BagToSet(deciding), storeOk \in BOOLEAN :
            handleDraftDecisionAnswered(run, storeOk)
    \/ \E id \in RequestIds, step \in Range(EVENT_REQUEST_REVIEW_STEPS),
          d \in Decisions, draft \in PanelDrafts :
            /\ BagCardinality(deciding) < MaxDecisions
            /\ handleReviewDecision(id, step, d, draft)
    \/ \E run \in BagToSet(deciding), storeOk \in BOOLEAN :
            handleReviewDecisionSelected(run, storeOk)
    \/ \E run \in BagToSet(deciding), call \in BagToSet(inflight),
          storeOk \in BOOLEAN :
            handleReviewDecisionAnswered(run, call, storeOk)
    \/ \E run \in BagToSet(deciding), requestsOk \in BOOLEAN :
            fetchDataAnswered(run, requestsOk)
    \/ \E run \in BagToSet(deciding), clientsOk \in BOOLEAN :
            listClientsAnswered(run, clientsOk)

SpecPanel == InitPanel /\ [][NextPanel]_vars

\* the panel after its mount over a table of two requests created as drafts
InitButtons ==
    /\ rows = <<NewRow, NewRow>>
    /\ inflight = EmptyBag
    /\ last = NoCompleted
    /\ scenario = "start"
    /\ profile = null
    /\ eventRequests = <<>>
    /\ updatingId = JsNull
    /\ deciding = SetToBag({FetchRun})
    /\ isLoading = TRUE

\* the texts of the feedback boxes of the panel that is run with its draft
\* decisions: a box is untouched or typed in
ButtonDrafts == PanelDrafts \cup { JsStr(<<" ", "a", " ">>) }

\* one event flow panel whose draft decisions are made with the buttons it
\* renders: the rows of the list are rendered when the panel is not loading,
\* and a decision button of a listed request is clicked when it is rendered
\* and not disabled
NextButtons ==
    \/ \E value \in RoleKeys \cup {null} :
            /\ setProfile(value)
            /\ UNCHANGED panelState
    \/ \E id \in DOMAIN rows, st \in {"PENDING", "REJECTED"},
          draft \in ButtonDrafts :
            /\ BagCardinality(deciding) < MaxDecisions
            /\ ~isLoading
            /\ listedRequest(id) # <<>>
            /\ canReviewDraft(listedRequest(id)[1])
            /\ ~buttonsDisabled(id)
            /\ handleDraftDecision(id, st, draft)
    \/ \E run \in BagToSet(deciding), storeOk \in BOOLEAN :
            handleDraftDecisionAnswered(run, storeOk)
    \/ \E run \in BagToSet(deciding), requestsOk \in BOOLEAN :
            fetchDataAnswered(run, requestsOk)
    \/ \E run \in BagToSet(deciding), clientsOk \in BOOLEAN :
            listClientsAnswered(run, clientsOk)

SpecButtons == InitButtons /\ [][NextButtons]_vars

(***************************************************************************)
(* Properties of the review workflow.                                      *)
(***************************************************************************)
\* the workflow operations: updateEventRequestStatusAction with PENDING
\* (submitForReview) or REJECTED (rejectDraft), and reviewEventRequestAction
WorkflowOps == {"submitForReview", "rejectDraft", "review"}

\* the row the call completed last was about, when there is one
LastRow == rows[last.id]
LastHasRow == last.id \in DOMAIN rows

\* C1: of two concurrent review calls on the same request id and the same step
\* at most one returns success: no review call returns success after a review
\* call of the same id and step, in progress at the same time, has succeeded.
C1_OneConcurrentReviewSucceeds ==
    ~(last.op = "review" /\ last.result = Success /\ last.raced)

\* C2: in every persisted state, status = PENDING if and only if review_step
\* is one of FINANCIAL_MANAGER, ADMINISTRATION_MANAGER, CUSTOMER_MEETING.
C2_PendingIffReviewStep ==
    \A id \in DOMAIN rows :
        (rows[id].status = "PENDING") <=> (rows[id].review_step \in Range(WorkflowSteps))

\* C3: in every persisted state, a status of DRAFT, REJECTED or APPROVED comes
\* with a null review_step, also after the status-only update.
C3_SettledHasNoReviewStep ==
    \A id \in DOMAIN rows :
        rows[id].status \in {"DRAFT", "REJECTED", "APPROVED"}
            => rows[id].review_step = null

\* C4: the index of review_step in the ordered step sequence never decreases:
\* no workflow operation takes a request from one review step to an earlier
\* step of the sequence.
C4_StepIndexNeverDecreases ==
    ( /\ last.op \in WorkflowOps
      /\ last.result = Success
      /\ last.pre # <<>>
      /\ last.pre[2] \in Range(WorkflowSteps)
      /\ LastRow.review_step \in Range(WorkflowSteps) )
    => findIndex(WorkflowSteps, LastRow.review_step)
          >= findIndex(WorkflowSteps, last.pre[2])

\* C5: REJECTED and APPROVED are terminal: a workflow operation issued on a
\* row whose status is REJECTED or APPROVED leaves status and review_step as
\* they were.
C5_TerminalStatusIsKept ==
    ( /\ last.op \in WorkflowOps
      /\ last.pre # <<>>
      /\ last.pre[1] \in {"REJECTED", "APPROVED"} )
    => /\ LastRow.status = last.pre[1]
       /\ LastRow.review_step = last.pre[2]

\* C6: a review call whose read returned a PENDING row with a review_step
\* different from its step argument returns the step-mismatch error, and the
\* table is left unchanged by it.
C6_StepMismatchRejected ==
    [][ ( /\ last'.op = "review"
          /\ last'.seen # <<>>
          /\ last'.seen[1] = "PENDING"
          /\ last'.step # last'.seen[2] )
        => ( last'.result = StepMismatch /\ rows' = rows ) ]_vars

C6_Witness ==
    /\ last.op = "review"
    /\ last.result = StepMismatch
    /\ last.seen = <<"PENDING", "ADMINISTRATION_MANAGER">>
    /\ last.step = "FINANCIAL_MANAGER"
    /\ LastHasRow
    /\ LastRow.status = "PENDING"
    /\ LastRow.review_step = "ADMINISTRATION_MANAGER"
    /\ LastRow.financial_manager_feedback = JsStr(<<"a">>)

\* C7: a review call whose read returned a row with a status other than
\* PENDING (DRAFT, REJECTED, APPROVED, OPEN) returns the not-pending error,
\* whatever its step and decision, and the table is left unchanged by it.
C7_NotPendingRejected ==
    [][ ( /\ last'.op = "review"
          /\ last'.seen # <<>>
          /\ last'.seen[1] \in {"DRAFT", "REJECTED", "APPROVED", "OPEN"} )
        => ( last'.result = NotPending /\ rows' = rows ) ]_vars

C7_Witness ==
    /\ last.op = "review"
    /\ last.result = NotPending
    /\ last.seen = <<"APPROVED", null>>
    /\ LastHasRow
    /\ LastRow.status = "APPROVED"

\* C8: submitForReview on a DRAFT row, when the store accepts the update,
\* returns success and leaves status = PENDING, review_step = FINANCIAL_MANAGER.
C8_SubmitForReviewFromDraft ==
    ( /\ last.op = "submitForReview"
      /\ last.pre # <<>>
      /\ last.pre[1] = "DRAFT"
      /\ last.result # StorageError )
    => /\ last.result = Success
       /\ LastRow.status = "PENDING"
       /\ LastRow.review_step = "FINANCIAL_MANAGER"

C8_Witness ==
    /\ last.op = "submitForReview"
    /\ last.pre = <<"DRAFT", null>>
    /\ last.result = Success
    /\ LastHasRow
    /\ LastRow.status = "PENDING"
    /\ LastRow.review_step = "FINANCIAL_MANAGER"

\* C9: review(id, FINANCIAL_MANAGER, APPROVE) on a row read as PENDING at
\* FINANCIAL_MANAGER, when the store accepts the update, returns success and
\* leaves status = PENDING, review_step = ADMINISTRATION_MANAGER.
C9_ApproveFinancialManager ==
    ( /\ last.op = "review"
      /\ last.step = "FINANCIAL_MANAGER"
      /\ last.decision = "APPROVE"
      /\ last.seen = <<"PENDING", "FINANCIAL_MANAGER">>
      /\ last.result # StorageError )
    => /\ last.result = Success
       /\ LastRow.status = "PENDING"
       /\ LastRow.review_step = "ADMINISTRATION_MANAGER"

C9_Witness ==
    /\ last.op = "review"
    /\ last.step = "FINANCIAL_MANAGER"
    /\ last.decision = "APPROVE"
    /\ last.seen = <<"PENDING", "FINANCIAL_MANAGER">>
    /\ last.pre = <<"PENDING", "FINANCIAL_MANAGER">>
    /\ last.result = Success
    /\ LastHasRow
    /\ LastRow.status = "PENDING"
    /\ LastRow.review_step = "ADMINISTRATION_MANAGER"

\* C10: CUSTOMER_MEETING is the last step: review(id, CUSTOMER_MEETING, APPROVE)
\* on a row read as PENDING at CUSTOMER_MEETING, when the store accepts the
\* update, returns success and leaves status = APPROVED, review_step = null.
C10_ApproveCustomerMeeting ==
    ( /\ last.op = "review"
      /\ last.step = "CUSTOMER_MEETING"
      /\ last.decision = "APPROVE"
      /\ last.seen = <<"PENDING", "CUSTOMER_MEETING">>
      /\ last.result # StorageError )
    => /\ last.result = Success
       /\ LastRow.status = "APPROVED"
       /\ LastRow.review_step = null

\* C11: review(id, s, REJECT) on a row read as PENDING at s, for each step s of
\* the workflow's step sequence, when the store accepts the update, returns
\* success and leaves status = REJECTED, review_step = null.
C11_RejectAtAnyStep ==
    ( /\ last.op = "review"
      /\ last.decision = "REJECT"
      /\ last.step \in Range(WorkflowSteps)
      /\ last.seen = <<"PENDING", last.step>>
      /\ last.result # StorageError )
    => /\ last.result = Success
       /\ LastRow.status = "REJECTED"
       /\ LastRow.review_step = null

C11_Witness ==
    /\ last.op = "review"
    /\ last.decision = "REJECT"
    /\ last.step = "CUSTOMER_MEETING"
    /\ last.seen = <<"PENDING", "CUSTOMER_MEETING">>
    /\ last.pre = <<"PENDING", "CUSTOMER_MEETING">>
    /\ last.result = Success
    /\ LastHasRow
    /\ LastRow.status = "REJECTED"
    /\ LastRow.review_step = null

\* C12: in the run create, submitForReview, review(FINANCIAL_MANAGER, APPROVE),
\* review(ADMINISTRATION_MANAGER, APPROVE), review(CUSTOMER_MEETING, APPROVE),
\* with the store accepting every call, each call returns success and the row
\* is, after each call in order, PENDING/FINANCIAL_MANAGER,
\* PENDING/ADMINISTRATION_MANAGER, PENDING/CUSTOMER_MEETING, APPROVED/null.
C12_EndToEndApproval ==
    LET Reached(status, step) ==
            /\ last.result = Success
            /\ LastRow.status = status
            /\ LastRow.review_step = step
    IN /\ scenario = "submitted" => Reached("PENDING", "FINANCIAL_MANAGER")
       /\ scenario = "fmApproved" => Reached("PENDING", "ADMINISTRATION_MANAGER")
       /\ scenario = "amApproved" => Reached("PENDING", "CUSTOMER_MEETING")
       /\ scenario = "cmApproved" => Reached("APPROVED", null)

\* C13: after create, submitForReview and review(FINANCIAL_MANAGER, REJECT) the
\* row is REJECTED with a null review_step, and every review call made after
\* that, for any step and decision, that the store answers, returns the
\* not-pending error and leaves the row REJECTED/null.
C13_RejectedStaysRejected ==
    /\ scenario = "fmRejected"
          => /\ last.result = Success
             /\ LastRow.status = "REJECTED"
             /\ LastRow.review_step = null
    /\ scenario = "fmRejectedReviewed"
          => /\ last.op = "review"
             /\ last.result # StorageError => last.result = NotPending
             /\ LastRow.status = "REJECTED"
             /\ LastRow.review_step = null

C13_Witness ==
    /\ scenario = "fmRejectedReviewed"
    /\ last.op = "review"
    /\ last.step = "ADMINISTRATION_MANAGER"
    /\ last.result = NotPending
    /\ last.seen = <<"REJECTED", null>>
    /\ LastRow.status = "REJECTED"
    /\ LastRow.review_step = null

\* C14: the row a successful createEventRequestAction has just inserted has
\* status = DRAFT and review_step = null.
C14_CreatedAsDraft ==
    (last.op = "create" /\ last.result = Success)
    => /\ LastHasRow
       /\ LastRow.status = "DRAFT"
       /\ LastRow.review_step = null

C14_Witness ==
    /\ last.op = "create"
    /\ last.result = Success
    /\ scenario = "created"
    /\ LastHasRow
    /\ LastRow.status = "DRAFT"
    /\ LastRow.review_step = null

\* a text made of spaces only (the empty text included)
AllSpaces(chars) == \A i \in DOMAIN chars : chars[i] = " "

\* text is chars without its leading and trailing spaces, and is not empty
IsTrimOf(text, chars) ==
    /\ text # <<>>
    /\ text[1] # " "
    /\ text[Len(text)] # " "
    /\ \E i \in 0..Len(chars) : \E j \in i..Len(chars) :
          /\ SubSeq(chars, i + 1, j) = text
          /\ AllSpaces(SubSeq(chars, 1, i))
          /\ AllSpaces(SubSeq(chars, j + 1, Len(chars)))

\* stored is the value the workflow keeps for a supplied feedback: null for an
\* absent, empty or blank text, the trimmed text otherwise
NormalizedFeedback(stored, supplied) ==
    IF supplied.t # "string" \/ AllSpaces(supplied.s)
    THEN stored = JsNull
    ELSE stored.t = "string" /\ IsTrimOf(stored.s, supplied.s)

\* C15: rejectDraft on a DRAFT row, when the store accepts the update, returns
\* success and leaves status = REJECTED, review_step = null and scso_feedback
\* equal to the supplied feedback trimmed, or null when that is blank.
C15_RejectDraft ==
    ( /\ last.op = "rejectDraft"
      /\ last.pre # <<>>
      /\ last.pre[1] = "DRAFT"
      /\ last.result # StorageError )
    => /\ last.result = Success
       /\ LastRow.status = "REJECTED"
       /\ LastRow.review_step = null
       /\ NormalizedFeedback(LastRow.scso_feedback, last.feedback)

C15_Witness ==
    /\ last.op = "rejectDraft"
    /\ last.pre = <<"DRAFT", null>>
    /\ last.feedback = JsStr(<<" ", "a", " ">>)
    /\ last.result = Success
    /\ LastHasRow
    /\ LastRow.status = "REJECTED"
    /\ LastRow.review_step = null
    /\ LastRow.scso_feedback = JsStr(<<"a">>)

\* the column in which a workflow operation keeps its feedback
FeedbackColumnOf(op, step) ==
    CASE op # "review" -> "scso_feedback"
      [] op = "review" /\ step = "FINANCIAL_MANAGER" -> "financial_manager_feedback"
      [] op = "review" /\ step = "ADMINISTRATION_MANAGER"
            -> "administration_manager_feedback"
      [] OTHER -> "customer_meeting_feedback"

\* C16: the feedback value a successful submitForReview, rejectDraft or review
\* has stored is the supplied text without its surrounding spaces, and null,
\* never the empty text, when the supplied feedback is absent, empty or blank.
C16_FeedbackNormalized ==
    ( /\ last.op \in WorkflowOps
      /\ last.result = Success
      /\ LastHasRow )
    => /\ NormalizedFeedback(LastRow[FeedbackColumnOf(last.op, last.step)],
                             last.feedback)
       /\ LastRow[FeedbackColumnOf(last.op, last.step)] # JsStr(<<>>)

C16_Witness ==
    /\ last.op = "review"
    /\ last.step = "FINANCIAL_MANAGER"
    /\ last.feedback = JsStr(<<>>)
    /\ last.result = Success
    /\ LastHasRow
    /\ LastRow.financial_manager_feedback = JsNull
    /\ LastRow.scso_feedback = JsStr(<<"a", " ", "a">>)

\* the row of a request holds everything a successful workflow call writes:
\* the status and review_step of its transition and its feedback value
WrittenInFull(row, call) ==
    /\ NormalizedFeedback(row[FeedbackColumnOf(call.op, call.step)], call.feedback)
    /\ CASE call.op = "submitForReview"
               -> row.status = "PENDING" /\ row.review_step = "FINANCIAL_MANAGER"
         [] call.op = "rejectDraft"
               -> row.status = "REJECTED" /\ row.review_step = null
         [] call.op = "review" /\ call.decision = "REJECT"
               -> row.status = "REJECTED" /\ row.review_step = null
         [] OTHER
               -> \/ row.status = "APPROVED" /\ row.review_step = null
                  \/ /\ row.status = "PENDING"
                     /\ row.review_step \notin {null, call.step}

\* C17: no workflow operation is partially applied: a step in which
\* submitForReview, rejectDraft or review returns a failure (a failed check, a
\* storage error on the read or on the write) leaves the table as it was, and
\* a step in which it returns success on an existing row has written status,
\* review_step and the feedback value together.
C17_NoPartialWrite ==
    [][ /\ (last'.op \in WorkflowOps /\ last'.result # Success) => rows' = rows
        /\ (last'.op \in WorkflowOps /\ last'.result = Success
              /\ last'.id \in DOMAIN rows')
             => WrittenInFull(rows'[last'.id], last') ]_vars

C17_Witness ==
    /\ last.op = "review"
    /\ last.step = "FINANCIAL_MANAGER"
    /\ last.decision = "APPROVE"
    /\ last.feedback = JsStr(<<" ", "a", " ">>)
    /\ last.result = StorageError
    /\ last.seen = <<"PENDING", "FINANCIAL_MANAGER">>
    /\ LastHasRow
    /\ LastRow.status = "PENDING"
    /\ LastRow.review_step = "FINANCIAL_MANAGER"
    /\ LastRow.financial_manager_feedback = JsNull

\* C18: a workflow operation (submitForReview, rejectDraft, review) on a
\* request id that has no row, when the store answers, returns the not-found
\* failure and leaves the table unchanged.
C18_MissingRowIsNotFound ==
    ( /\ last.op \in WorkflowOps
      /\ last.pre = <<>>
      /\ last.result # StorageError )
    => /\ last.result = NotFound
       /\ rows = <<>>

\* C19: a review call whose step argument is not one of the steps of the
\* workflow's sequence returns a failure, and the table is left unchanged by
\* it, whatever the state of the row.
C19_UnknownStepRejected ==
    [][ (last'.op = "review" /\ last'.step \notin Range(WorkflowSteps))
        => (last'.result # Success /\ rows' = rows) ]_vars

C19_Witness ==
    /\ last.op = "review"
    /\ last.step = "UNKNOWN_STEP"
    /\ last.seen = <<"PENDING", "ADMINISTRATION_MANAGER">>
    /\ last.result \in {StepMismatch, InvalidStep}
    /\ LastHasRow
    /\ LastRow.status = "PENDING"
    /\ LastRow.review_step = "ADMINISTRATION_MANAGER"

\* the role the workflow gives each review step to
RoleOfStep(step) ==
    CASE step = "FINANCIAL_MANAGER" -> "FINANCIAL_MANAGER"
      [] step = "ADMINISTRATION_MANAGER" -> "ADMINISTRATION_MANAGER"
      [] step = "CUSTOMER_MEETING" -> "SENIOR_CUSTOMER_SERVICE"
      [] OTHER -> "no role"

\* in this step the select of a reviewEventRequestAction called with the given
\* step passed its checks: the call is now between its read and its update
ReviewCalled(step) ==
    \E call \in BagToSet(inflight') :
        /\ call.step = step
        /\ ~call.raced
        /\ CopiesIn(call, inflight') > CopiesIn(call, inflight)

\* in this step the handler went on to its server action with the given run
Started(run, handler) ==
    /\ run.handler = handler
    /\ run.pc = "action"
    /\ CopiesIn(run, deciding') > CopiesIn(run, deciding)

\* C20: a review decision issued through handleReviewDecision reaches
\* reviewEventRequestAction only when the role of the profile that issued it
\* is the role of the step (FINANCIAL_MANAGER, ADMINISTRATION_MANAGER, and
\* SENIOR_CUSTOMER_SERVICE for CUSTOMER_MEETING): every run that goes on to
\* the server action, every read of the server action and every row written
\* by it belongs to a decision issued under that role; with any other role,
\* or without a profile, the handler makes no server call and the table is
\* unchanged.
C20_ReviewOnlyByRoleOfStep ==
    [][ /\ \A run \in BagToSet(deciding') :
              Started(run, "handleReviewDecision")
              => /\ profile # null
                 /\ profile = RoleOfStep(run.step)
                 /\ run.by = profile
        /\ \A step \in StepInputs :
              ReviewCalled(step)
              => \E run \in BagToSet(deciding) :
                    /\ run.handler = "handleReviewDecision"
                    /\ run.pc = "action"
                    /\ run.step = step
                    /\ run.by = RoleOfStep(step)
                    /\ CopiesIn(run, deciding') < CopiesIn(run, deciding)
        /\ \A call \in BagToSet(inflight) :
              CopiesIn(call, inflight') < CopiesIn(call, inflight)
              => \E run \in BagToSet(deciding) :
                    /\ run.handler = "handleReviewDecision"
                    /\ run.pc = "update"
                    /\ run.step = call.step
                    /\ run.by = RoleOfStep(call.step)
        /\ \A id \in RequestIds, step \in StepInputs, d \in Decisions,
              draft \in PanelDrafts :
              (profile # RoleOfStep(step) /\ handleReviewDecision(id, step, d, draft))
              => UNCHANGED <<rows, inflight, deciding, updatingId>> ]_vars

C20_Witness ==
    /\ profile = "FINANCIAL_MANAGER"
    /\ \E call \in BagToSet(inflight) : call.step = "CUSTOMER_MEETING"
    /\ \E run \in BagToSet(deciding) :
          /\ run.handler = "handleReviewDecision"
          /\ run.pc = "update"
          /\ run.step = "CUSTOMER_MEETING"
          /\ run.by = "SENIOR_CUSTOMER_SERVICE"
    /\ 1 \in DOMAIN rows
    /\ rows[1].status = "PENDING"
    /\ rows[1].review_step = "CUSTOMER_MEETING"

\* C21: in the panel a DRAFT request leaves DRAFT only by the update of a
\* draft decision issued under a profile whose role is
\* SENIOR_CUSTOMER_SERVICE, and handleDraftDecision goes on to
\* updateEventRequestStatusAction under that role alone; with any other role,
\* or without a profile, handleDraftDecision makes no server call and the
\* table is unchanged.
C21_DraftDecisionOnlyBySenior ==
    [][ /\ \A run \in BagToSet(deciding') :
              Started(run, "handleDraftDecision")
              => /\ profile = "SENIOR_CUSTOMER_SERVICE"
                 /\ run.by = profile
        /\ \A id \in DOMAIN rows :
              (rows[id].status = "DRAFT" /\ rows'[id].status # "DRAFT")
              => \E run \in BagToSet(deciding) :
                    /\ run.handler = "handleDraftDecision"
                    /\ run.pc = "action"
                    /\ run.id = id
                    /\ run.nextStatus = rows'[id].status
                    /\ run.by = "SENIOR_CUSTOMER_SERVICE"
                    /\ CopiesIn(run, deciding') < CopiesIn(run, deciding)
        /\ \A id \in RequestIds, st \in {"PENDING", "REJECTED"},
              draft \in PanelDrafts :
              (profile # "SENIOR_CUSTOMER_SERVICE"
                 /\ handleDraftDecision(id, st, draft))
              => UNCHANGED <<rows, inflight, deciding, updatingId>> ]_vars

C21_Witness ==
    /\ profile = "FINANCIAL_MANAGER"
    /\ 1 \in DOMAIN rows
    /\ rows[1].status = "PENDING"
    /\ rows[1].review_step = "FINANCIAL_MANAGER"
    /\ \E run \in BagToSet(deciding) :
          /\ run.handler = "handleDraftDecision"
          /\ run.pc = "reload"
          /\ run.id = 1
          /\ run.nextStatus = "PENDING"
          /\ run.by = "SENIOR_CUSTOMER_SERVICE"

\* a client id text that names a client: a non-empty text of digits
IsClientNumber(chars) ==
    chars # <<>> /\ \A i \in DOMAIN chars : chars[i] \in Range(DigitChars)

\* the time texts that denote an instant
InstantTexts == { "2025-01-01T10:00Z", "2025-01-01T10:00:00.000Z" }

\* a form the create operation has to refuse
MalformedForm(form) ==
    \/ ~IsClientNumber(form.clientId)
    \/ form.startTime \notin InstantTexts
    \/ form.finishTime \notin InstantTexts

\* C22: a create through handleCreate with a missing or non-numeric client
\* id, a missing start or finish time, or a start or finish time that is not
\* a valid instant is refused before the store is reached: no step in which
\* the handler goes on to createEventRequestAction is a step of handleCreate
\* on such a form.
C22_MalformedFormRefused ==
    [][ \A run \in BagToSet(deciding') :
          Started(run, "handleCreate")
          => ~ \E form \in FormStates :
                  MalformedForm(form) /\ handleCreate(form) ]_vars

\* C23: the list reports each request with the status it has in the store:
\* the status of every record listEventRequestsAction returns equals the
\* persisted status of its row, for DRAFT, PENDING, REJECTED, APPROVED and OPEN.
C23_ListedStatusIsPersisted ==
    (last.op = "list" /\ last.result = Success)
    => /\ Len(last.data) = Len(rows)
       /\ \A i \in DOMAIN last.data :
             last.data[i].status = rows[Len(rows) + 1 - i].status

\* result is what the list has to surface for a relation value of the store:
\* null for a missing value or an empty list, the first row of a list, the
\* object itself for a single object
SurfacedFrom(result, value) ==
    /\ result = JsNull \/ result \in RelationObjects
    /\ CASE value.t \in {"null", "undefined"} -> result = JsNull
         [] value.t = "array" /\ Len(value.v) = 0 -> result = JsNull
         [] value.t = "array" /\ Len(value.v) > 0 -> result = Head(value.v)
         [] OTHER -> result = value

\* C24: for every relation value the store returns, the listed record carries
\* exactly one object or null: null for a missing value or an empty list, the
\* first element of a list of one or more rows, the object itself for a
\* single object.
C24_RelationUnwrapped ==
    (last.op = "list" /\ last.result = Success)
    => \A i \in DOMAIN last.data :
          /\ SurfacedFrom(last.data[i].client, last.joined.client)
          /\ SurfacedFrom(last.data[i].submitter, last.joined.submitter)

C24_Witness ==
    /\ last.op = "list"
    /\ last.result = Success
    /\ last.joined.client = JsArray(<<JsObject("first"), JsObject("second")>>)
    /\ last.joined.submitter = JsNull
    /\ Len(last.data) = 1
    /\ last.data[1].client = JsObject("first")
    /\ last.data[1].submitter = JsNull

\* C25: submitForReview does not check the current status: on a row in any
\* status (DRAFT, PENDING at any step, REJECTED, APPROVED, OPEN), when the
\* store accepts the update, it returns success and leaves status = PENDING,
\* review_step = FINANCIAL_MANAGER and scso_feedback overwritten with the
\* feedback value of the call.
C25_SubmitForReviewFromAnyStatus ==
    ( /\ last.op = "submitForReview"
      /\ last.pre # <<>>
      /\ last.pre[1] \in {"DRAFT", "PENDING", "REJECTED", "APPROVED", "OPEN"}
      /\ last.result # StorageError )
    => /\ last.result = Success
       /\ LastRow.status = "PENDING"
       /\ LastRow.review_step = "FINANCIAL_MANAGER"
       /\ NormalizedFeedback(LastRow.scso_feedback, last.feedback)

C25_Witness ==
    /\ last.op = "submitForReview"
    /\ last.pre = <<"APPROVED", null>>
    /\ last.feedback = JsStr(<<" ">>)
    /\ last.result = Success
    /\ LastHasRow
    /\ LastRow.status = "PENDING"
    /\ LastRow.review_step = "FINANCIAL_MANAGER"
    /\ LastRow.scso_feedback = JsNull
    /\ LastRow.financial_manager_feedback = JsStr(<<"a">>)

\* the columns a review at the given step may write
ReviewColumns(step) == {"status", "review_step", FEEDBACK_COLUMN_BY_STEP(step)}

\* C26: a successful review at step s, APPROVE or REJECT, writes only status,
\* review_step and the feedback column mapped to s: the update it issues names
\* no other column, and every other column of the row (scso_feedback, the
\* feedback columns of the other steps) keeps the value it had.
C26_ReviewFrame ==
    [][ ( /\ last'.op = "review"
          /\ last'.decision \in Decisions
          /\ last'.result = Success
          /\ last'.id \in DOMAIN rows )
        => /\ DOMAIN ReviewUpdates(last'.step, last'.decision, last'.feedback)
                = ReviewColumns(last'.step)
           /\ \A id \in DOMAIN rows :
                \A c \in DOMAIN rows[id] :
                   (id # last'.id \/ c \notin ReviewColumns(last'.step))
                   => rows'[id][c] = rows[id][c] ]_vars

C26_Witness ==
    /\ last.op = "review"
    /\ last.decision = "REJECT"
    /\ last.step = "ADMINISTRATION_MANAGER"
    /\ last.result = Success
    /\ last.feedback = JsStr(<<" ">>)
    /\ LastHasRow
    /\ LastRow.status = "REJECTED"
    /\ LastRow.scso_feedback = JsStr(<<"a">>)
    /\ LastRow.financial_manager_feedback = JsStr(<<"a">>)
    /\ LastRow.administration_manager_feedback = JsNull

\* the number of stages a request still has to pass: the stages of the
\* workflow's step sequence from its review step onwards while it is PENDING,
\* none once it is decided
StagesLeft(status, step) ==
    IF status # "PENDING" THEN 0
    ELSE IF \E i \in DOMAIN WorkflowSteps : WorkflowSteps[i] = step
         THEN Len(WorkflowSteps) + 1
                - (CHOOSE i \in DOMAIN WorkflowSteps : WorkflowSteps[i] = step)
    ELSE Len(WorkflowSteps) + 1

\* C27: the review flow has exactly the three stages FINANCIAL_MANAGER,
\* ADMINISTRATION_MANAGER, CUSTOMER_MEETING: a successful review of a row that
\* is PENDING at the step it read leaves the row decided or PENDING at one of
\* the three stages, with fewer stages left than before, so that at most three
\* successful reviews are applied before APPROVED or REJECTED.
C27_ThreeStages ==
    ( /\ last.op = "review"
      /\ last.result = Success
      /\ last.seen # <<>>
      /\ last.seen[1] = "PENDING"
      /\ last.pre = last.seen
      /\ LastHasRow )
    => /\ StagesLeft(last.seen[1], last.seen[2]) <= Len(WorkflowSteps)
       /\ StagesLeft(LastRow.status, LastRow.review_step)
             < StagesLeft(last.seen[1], last.seen[2])

\* C28: review reports the first failing precondition in the order not-found,
\* not-pending, step-mismatch, invalid-step: a review the store answered that
\* ended before its write reports not-found when it read no row, else
\* not-pending when the row it read is not PENDING (whatever the step
\* argument), else step-mismatch when the step differs from the row's, else
\* invalid-step; and a review that issued its write passed all of them on the
\* row it read and returns success whatever the row has become since.
C28_CheckOrder ==
    ( /\ last.op = "review"
      /\ last.result # StorageError )
    => IF last.decision = null
       THEN last.result =
              IF last.pre = <<>> THEN NotFound
              ELSE IF normalizeStatus(last.pre[1]) # "PENDING" THEN NotPending
              ELSE IF normalizeReviewStep(last.pre[2]) # last.step THEN StepMismatch
              ELSE InvalidStep
       ELSE /\ last.result = Success
            /\ last.seen # <<>>
            /\ normalizeStatus(last.seen[1]) = "PENDING"
            /\ normalizeReviewStep(last.seen[2]) = last.step
            /\ last.step \in Range(EVENT_REQUEST_REVIEW_STEPS)

C28_Witness ==
    /\ last.op = "review"
    /\ last.decision = null
    /\ last.pre = <<"REJECTED", null>>
    /\ last.step = "FINANCIAL_MANAGER"
    /\ last.result = NotPending

\* some profile the AuthProvider can load passes canHandleReviewStep for the step
SomeRoleHandles(step) ==
    \E value \in RoleKeys :
        ENABLED ( /\ setProfile(value)
                  /\ UNCHANGED panelState
                  /\ canHandleReviewStep(step)' )

\* C29: no PENDING request is stuck: every review_step that a decision made
\* through the panel has persisted on a PENDING row is a step for which some
\* role passes canHandleReviewStep, so that a reviewer who can move the
\* request on exists.
C29_NoStuckPending ==
    \A id \in DOMAIN rows :
        rows[id].status = "PENDING" => SomeRoleHandles(rows[id].review_step)

\* the decisions for the request that the panel has in progress
DecisionsInFlight(requestId) ==
    CopiesOfAll(deciding,
                { run \in BagToSet(deciding) :
                    /\ run.handler \in {"handleDraftDecision", "handleReviewDecision"}
                    /\ run.id = requestId })

\* C30: within one panel, while a decision for request r is in flight the
\* decision buttons of r are disabled (updatingId = r), whatever decisions for
\* other requests have been started or finished since, so that the panel has
\* at most one decision for r in flight; and when no decision is in flight
\* updatingId is null.
C30_ButtonsDisabledInFlight ==
    /\ \A r \in DOMAIN rows :
          /\ DecisionsInFlight(r) > 0 => buttonsDisabled(r)
          /\ DecisionsInFlight(r) <= 1
    /\ (\A r \in DOMAIN rows : DecisionsInFlight(r) = 0) => updatingId = JsNull
====
